---- MODULE Spec2Model ----
(***************************************************************************)
(* Model of batch_rename.py: MP3 files are renamed to "Artist - Title.mp3" *)
(* from their ID3 tags by a pool of worker threads.                        *)
(*                                                                         *)
(* Strings are sequences of one-character strings.  A path is a pair       *)
(* <<directory, file name>>.  The file system is a function from the       *)
(* existing paths to the identity of the file stored there; the identity   *)
(* of a file is the path it had before the first run.                      *)
(***************************************************************************)
EXTENDS Integers, Sequences, FiniteSets, TLC

\* ------------------------------ bounds -------------------------------- \*

\* largest number of MP3 files in the tree before the first run
MaxFiles == 2
\* largest value of --workers
MaxWorkers == 2
\* largest number of rename calls the environment makes fail (permission, lock)
MaxFail == 1

\* ----------------------------- strings -------------------------------- \*

Digits == <<"0", "1", "2", "3", "4", "5", "6", "7", "8", "9">>

RECURSIVE ToStr(_)
\* str(n) of a natural number, as the f-string "{n}" formats it
ToStr(n) == IF n < 10 THEN <<Digits[n + 1]>>
            ELSE ToStr(n \div 10) \o <<Digits[(n % 10) + 1]>>

\* Optional[str]: None is <<>>, a string s is <<s>>
None == <<>>
Some(s) == <<s>>
\* Python truthiness of an Optional[str]: None and "" are falsy
Truthy(o) == o # None /\ o[1] # <<>>
\* `o or default`
OrElse(o, default) == IF Truthy(o) THEN o[1] ELSE default

\* characters of the modelled alphabet, by class
\* TAB is U+0009 (a control character and whitespace), SOH is U+0001 (a
\* control character, not whitespace), LS is U+2028 (whitespace, not a
\* control character), FWSOL is U+FF0F (NFKC maps it to "/"), NBSP is U+00A0
\* (NFKC maps it to " ")
ControlChars == {"TAB", "SOH"}
Whitespace == {" ", "TAB", "LS"}
IllegalChars == {"\\", "/", ":", "\"", "*", "?", "<", ">", "|"}

\* unicodedata.normalize("NFKC", .) of one character
NfkcChar(c) == CASE c = "FWSOL" -> "/"
                 [] c = "NBSP" -> " "
                 [] OTHER -> c

NFKC(s) == [i \in 1..Len(s) |-> NfkcChar(s[i])]

\* str.strip(chars): the leading and trailing characters in chars removed;
\* str.strip() is Strip(s, Whitespace)
Strip(s, chars) ==
    LET keep == {i \in 1..Len(s) : s[i] \notin chars} IN
    IF keep = {} THEN <<>>
    ELSE SubSeq(s, CHOOSE i \in keep : \A j \in keep : i <= j,
                   CHOOSE i \in keep : \A j \in keep : i >= j)

IsNotControl(c) == c \notin ControlChars

\* re.sub(r"[\x00-\x1f]", "", t)
RemoveControl(s) == SelectSeq(s, IsNotControl)

\* re.sub(_ILLEGAL_CHARS, " ", t)
ReplaceIllegal(s) == [i \in 1..Len(s) |-> IF s[i] \in IllegalChars THEN " " ELSE s[i]]

IsKept(c) == c # "DROP"

\* re.sub(r"\s+", " ", t): the first character of each run of whitespace
\* becomes " " and the rest of the run is dropped
CollapseWhitespace(s) ==
    SelectSeq([i \in 1..Len(s) |->
                  IF s[i] \notin Whitespace THEN s[i]
                  ELSE IF i > 1 /\ s[i - 1] \in Whitespace THEN "DROP" ELSE " "],
              IsKept)

Untitled == <<"u", "n", "t", "i", "t", "l", "e", "d">>

\* t[:max_len] for max_len >= 0
Truncate(s, max_len) == SubSeq(s, 1, IF Len(s) < max_len THEN Len(s) ELSE max_len)

DefaultMaxLen == 120

\* each step's value is held in a one-element set, so that the next step
\* works on a value
safe_filename(text, max_len) ==
    LET t1 == {Strip(NFKC(text), Whitespace)}
        t2 == {RemoveControl(t) : t \in t1}
        t3 == {ReplaceIllegal(t) : t \in t2}
        t4 == {Strip(CollapseWhitespace(t), {".", " "}) : t \in t3}
        t5 == {Strip(t, Whitespace) : t \in t4}
        t6 == {IF t = <<>> THEN Untitled ELSE t : t \in t5}
    IN  CHOOSE r \in {Truncate(t, max_len) : t \in t6} : TRUE

UnknownArtist == <<"U", "n", "k", "n", "o", "w", "n", " ", "A", "r", "t", "i", "s", "t">>
UnknownTitle == <<"U", "n", "k", "n", "o", "w", "n", " ", "T", "i", "t", "l", "e">>

\* build_base_name with the two parts in the other order
build_base_name_titleFirst(artist, title) ==
    LET a == safe_filename(OrElse(artist, UnknownArtist), DefaultMaxLen)
        t == safe_filename(OrElse(title, UnknownTitle), DefaultMaxLen)
    IN  t \o <<" ", "-", " ">> \o a

build_base_name(artist, title) ==
    LET a == safe_filename(OrElse(artist, UnknownArtist), DefaultMaxLen)
        t == safe_filename(OrElse(title, UnknownTitle), DefaultMaxLen)
    IN  a \o <<" ", "-", " ">> \o t

Mp3Ext == <<".", "m", "p", "3">>

\* Candidate with the suffix " (1)" on the first candidate too
Candidate_suffixFirst(directory, stem, n, ext) ==
    <<directory, stem \o <<" ", "(">> \o ToStr(n) \o <<")">> \o ext>>

\* the n-th candidate of unique_path: directory / f"{stem}{ext}" for n = 1,
\* directory / f"{stem} ({n}){ext}" for n >= 2
Candidate(directory, stem, n, ext) ==
    IF n = 1 THEN <<directory, stem \o ext>>
    ELSE <<directory, stem \o <<" ", "(">> \o ToStr(n) \o <<")">> \o ext>>

\* Path.exists() on a file system fsys
Exists(fsys, p) == p \in DOMAIN fsys

RECURSIVE UniqueFrom(_, _, _, _, _)
\* the loop of unique_path from candidate n on, on a file system nobody changes
UniqueFrom(fsys, directory, stem, ext, n) ==
    IF ~Exists(fsys, Candidate(directory, stem, n, ext))
    THEN Candidate(directory, stem, n, ext)
    ELSE UniqueFrom(fsys, directory, stem, ext, n + 1)

unique_path(fsys, directory, stem, ext) == UniqueFrom(fsys, directory, stem, ext, 1)

\* ------------------------------ state --------------------------------- \*

VARIABLES
    fs,        \* the file system: existing path |-> identity of the file there
    tags,      \* file identity |-> what eyed3.load gives for that file
    dry_run,   \* args.dry_run
    workers,   \* args.workers
    mp3s,      \* the paths find_mp3s returned, one submitted future per path
    task,      \* per submitted path: position and locals of rename_one
    renamed,   \* the three counters of main
    skipped,
    errors,
    run,       \* 1 during the first invocation of main, 2 during the second
    fs0,       \* the file system when the current run scanned it
    prev,      \* the first run's tasks as they ended, once the second has begun
    raised,    \* the paths whose src.rename(dst) call raised in the current run
    nfail,     \* rename calls the environment has made fail so far
    san        \* a call of safe_filename: its arguments and what it returned

vars == <<fs, tags, dry_run, workers, mp3s, task, renamed, skipped, errors,
          run, fs0, prev, raised, nfail, san>>

\* ----------------------------- inputs --------------------------------- \*

Dir1 == "d1"
Dir2 == "d2"

StemAB == <<"A", " ", "-", " ", "B">>
NameT == <<"t">> \o Mp3Ext
NameU == <<"u">> \o Mp3Ext
NameAB == StemAB \o Mp3Ext
NameAB2 == StemAB \o <<" ", "(", "2", ")">> \o Mp3Ext

\* the paths a file can have before the first run
InitPaths == {<<Dir1, NameT>>, <<Dir1, NameU>>, <<Dir1, NameAB>>, <<Dir1, NameAB2>>,
              <<Dir2, NameT>>, <<Dir2, NameAB>>}

Tag(kind, artist, title) == [kind |-> kind, artist |-> artist, title |-> title]

\* what eyed3.load can give: tags with artist "A" and title "B", tags with
\* only a title, tags with neither, no tag at all, an exception
TagChoices == {Tag("ok", Some(<<"A">>), Some(<<"B">>)),
               Tag("ok", None, Some(<<"B">>)),
               Tag("ok", None, None),
               Tag("notag", None, None),
               Tag("raise", None, None)}

\* ------------------------------ tasks --------------------------------- \*

NoPath == <<>>

Queued == [pc |-> "queued", stem |-> <<>>, n |-> 0, dst |-> NoPath,
           status |-> "", message |-> ""]

\* the first directory, whatever the directory of p
Parent_firstDir(p) == Dir1

\* src.parent
Parent(p) == p[1]

\* futures a worker thread is executing
Running == {t \in mp3s : task[t].pc \in {"check", "rename"}}

\* RenameResult(src, dst, status, message), the future's result
Result(t, d, status, message) ==
    [task[t] EXCEPT !.pc = "done", !.dst = d, !.status = status, !.message = message]

\* no call of safe_filename is under observation
NoCall == [text |-> None, max_len |-> 0, pc |-> "none", out |-> <<>>]

Init ==
    \E files \in SUBSET InitPaths :
        /\ Cardinality(files) \in 1..MaxFiles
        /\ fs = [p \in files |-> p]
        /\ tags \in [files -> TagChoices]
        /\ dry_run \in BOOLEAN
        /\ workers \in 1..MaxWorkers
        /\ mp3s = files
        /\ task = [p \in files |-> Queued]
        /\ renamed = 0 /\ skipped = 0 /\ errors = 0
        /\ run = 1
        /\ fs0 = fs
        /\ prev = [p \in {} |-> Queued]
        /\ raised = {}
        /\ nfail = 0
        /\ san = NoCall

\* Start in which a failure of eyed3.load ends the future with an error
Start_tagErrorIsError(t) ==
    /\ task[t].pc = "queued"
    /\ Cardinality(Running) < workers
    /\ task' = [task EXCEPT ![t] =
          IF ~Exists(fs, t)
          THEN Result(t, NoPath, "error", "Exception reading tags: file not found")
          ELSE LET tg == tags[fs[t]] IN
               IF tg.kind = "raise"
               THEN Result(t, NoPath, "error", "Exception reading tags: parse error")
               ELSE IF tg.kind = "notag"
               THEN Result(t, NoPath, "skipped", "No ID3 tag found")
               ELSE IF ~Truthy(tg.artist) /\ ~Truthy(tg.title)
               THEN Result(t, NoPath, "skipped", "Missing artist and title tags")
               ELSE [task[t] EXCEPT !.pc = "check",
                                    !.stem = build_base_name(tg.artist, tg.title),
                                    !.n = 1]]
    /\ UNCHANGED <<fs, tags, dry_run, workers, mp3s, renamed, skipped, errors,
                   run, fs0, prev, raised, nfail>>
    /\ UNCHANGED san

\* A worker thread takes the future of t and runs derive_target up to the
\* call of unique_path: the tags are read from the file now at t.
Start(t) ==
    /\ task[t].pc = "queued"
    /\ Cardinality(Running) < workers
    /\ task' = [task EXCEPT ![t] =
          IF ~Exists(fs, t)
          THEN Result(t, NoPath, "skipped", "Exception reading tags: file not found")
          ELSE LET tg == tags[fs[t]] IN
               IF tg.kind = "raise"
               THEN Result(t, NoPath, "skipped", "Exception reading tags: parse error")
               ELSE IF tg.kind = "notag"
               THEN Result(t, NoPath, "skipped", "No ID3 tag found")
               ELSE IF ~Truthy(tg.artist) /\ ~Truthy(tg.title)
               THEN Result(t, NoPath, "skipped", "Missing artist and title tags")
               ELSE [task[t] EXCEPT !.pc = "check",
                                    !.stem = build_base_name(tg.artist, tg.title),
                                    !.n = 1]]
    /\ UNCHANGED <<fs, tags, dry_run, workers, mp3s, renamed, skipped, errors,
                   run, fs0, prev, raised, nfail>>
    /\ UNCHANGED san

\* Check with a loop that tries the same candidate again (no n += 1)
Check_sameCandidate(t) ==
    /\ task[t].pc = "check"
    /\ LET c == Candidate(Parent(t), task[t].stem, task[t].n, Mp3Ext) IN
       task' = [task EXCEPT ![t] =
          IF Exists(fs, c)
          THEN task[t]
          ELSE IF c = t
          THEN Result(t, NoPath, "skipped", "Already has desired name")
          ELSE [task[t] EXCEPT !.pc = "rename", !.dst = c]]
    /\ UNCHANGED <<fs, tags, dry_run, workers, mp3s, renamed, skipped, errors,
                   run, fs0, prev, raised, nfail>>
    /\ UNCHANGED san

\* Check that takes the first candidate without calling exists()
Check_noExistsTest(t) ==
    /\ task[t].pc = "check"
    /\ LET c == Candidate(Parent(t), task[t].stem, task[t].n, Mp3Ext) IN
       task' = [task EXCEPT ![t] =
          IF c = t
          THEN Result(t, NoPath, "skipped", "Already has desired name")
          ELSE [task[t] EXCEPT !.pc = "rename", !.dst = c]]
    /\ UNCHANGED <<fs, tags, dry_run, workers, mp3s, renamed, skipped, errors,
                   run, fs0, prev, raised, nfail>>
    /\ UNCHANGED san

\* One candidate.exists() of unique_path, and, when the candidate is free,
\* the rest of derive_target.
Check(t) ==
    /\ task[t].pc = "check"
    /\ LET c == Candidate(Parent(t), task[t].stem, task[t].n, Mp3Ext) IN
       task' = [task EXCEPT ![t] =
          IF Exists(fs, c)
          THEN [task[t] EXCEPT !.n = @ + 1]
          ELSE IF c = t
          THEN Result(t, NoPath, "skipped", "Already has desired name")
          ELSE [task[t] EXCEPT !.pc = "rename", !.dst = c]]
    /\ UNCHANGED <<fs, tags, dry_run, workers, mp3s, renamed, skipped, errors,
                   run, fs0, prev, raised, nfail>>
    /\ UNCHANGED san

\* the outcomes src.rename(dst) can have on the file system fsys: the
\* environment may refuse it ("denied"); a missing source raises; onto an
\* existing destination POSIX replaces it and Windows raises
RenameOutcomes(fsys, s, d, mayFail) ==
    (IF mayFail THEN {"denied"} ELSE {})
    \cup (IF ~Exists(fsys, s) THEN {"missing"}
          ELSE IF Exists(fsys, d) THEN {"replaced", "exists"}
          ELSE {"moved"})

\* the file system after a successful rename of s to d
Moved(fsys, s, d) ==
    [p \in (DOMAIN fsys \ {s}) \cup {d} |-> IF p = d THEN fsys[s] ELSE fsys[p]]

\* Rename whose failing call has already unlinked the source
Rename_sourceGone(t) ==
    /\ task[t].pc = "rename"
    /\ IF dry_run
       THEN /\ task' = [task EXCEPT ![t] = Result(t, task[t].dst, "renamed", "dry-run")]
            /\ UNCHANGED <<fs, raised, nfail>>
       ELSE \E o \in RenameOutcomes(fs, t, task[t].dst, nfail < MaxFail) :
            IF o \in {"moved", "replaced"}
            THEN /\ fs' = Moved(fs, t, task[t].dst)
                 /\ task' = [task EXCEPT ![t] = Result(t, task[t].dst, "renamed", "")]
                 /\ UNCHANGED <<raised, nfail>>
            ELSE /\ task' = [task EXCEPT ![t] = Result(t, task[t].dst, "error", o)]
                 /\ raised' = raised \cup {t}
                 /\ nfail' = IF o = "denied" THEN nfail + 1 ELSE nfail
                 /\ fs' = [p \in DOMAIN fs \ {t} |-> fs[p]]
    /\ UNCHANGED <<tags, dry_run, workers, mp3s, renamed, skipped, errors,
                   run, fs0, prev>>
    /\ UNCHANGED san

\* Rename that calls src.rename(dst) before it looks at dry_run
Rename_ignoresDryRun(t) ==
    /\ task[t].pc = "rename"
    /\ \E o \in RenameOutcomes(fs, t, task[t].dst, nfail < MaxFail) :
            IF o \in {"moved", "replaced"}
            THEN /\ fs' = Moved(fs, t, task[t].dst)
                 /\ task' = [task EXCEPT ![t] =
                       Result(t, task[t].dst, "renamed", IF dry_run THEN "dry-run" ELSE "")]
                 /\ UNCHANGED <<raised, nfail>>
            ELSE /\ task' = [task EXCEPT ![t] = Result(t, task[t].dst, "error", o)]
                 /\ raised' = raised \cup {t}
                 /\ nfail' = IF o = "denied" THEN nfail + 1 ELSE nfail
                 /\ UNCHANGED fs
    /\ UNCHANGED <<tags, dry_run, workers, mp3s, renamed, skipped, errors,
                   run, fs0, prev>>
    /\ UNCHANGED san

\* Rename whose dry-run return reports the file as skipped
Rename_dryRunSkipped(t) ==
    /\ task[t].pc = "rename"
    /\ IF dry_run
       THEN /\ task' = [task EXCEPT ![t] = Result(t, task[t].dst, "skipped", "dry-run")]
            /\ UNCHANGED <<fs, raised, nfail>>
       ELSE \E o \in RenameOutcomes(fs, t, task[t].dst, nfail < MaxFail) :
            IF o \in {"moved", "replaced"}
            THEN /\ fs' = Moved(fs, t, task[t].dst)
                 /\ task' = [task EXCEPT ![t] = Result(t, task[t].dst, "renamed", "")]
                 /\ UNCHANGED <<raised, nfail>>
            ELSE /\ task' = [task EXCEPT ![t] = Result(t, task[t].dst, "error", o)]
                 /\ raised' = raised \cup {t}
                 /\ nfail' = IF o = "denied" THEN nfail + 1 ELSE nfail
                 /\ UNCHANGED fs
    /\ UNCHANGED <<tags, dry_run, workers, mp3s, renamed, skipped, errors,
                   run, fs0, prev>>
    /\ UNCHANGED san

\* The try block of rename_one: the dry-run return, or src.rename(dst).
Rename(t) ==
    /\ task[t].pc = "rename"
    /\ IF dry_run
       THEN /\ task' = [task EXCEPT ![t] = Result(t, task[t].dst, "renamed", "dry-run")]
            /\ UNCHANGED <<fs, raised, nfail>>
       ELSE \E o \in RenameOutcomes(fs, t, task[t].dst, nfail < MaxFail) :
            IF o \in {"moved", "replaced"}
            THEN /\ fs' = Moved(fs, t, task[t].dst)
                 /\ task' = [task EXCEPT ![t] = Result(t, task[t].dst, "renamed", "")]
                 /\ UNCHANGED <<raised, nfail>>
            ELSE /\ task' = [task EXCEPT ![t] = Result(t, task[t].dst, "error", o)]
                 /\ raised' = raised \cup {t}
                 /\ nfail' = IF o = "denied" THEN nfail + 1 ELSE nfail
                 /\ UNCHANGED fs
    /\ UNCHANGED <<tags, dry_run, workers, mp3s, renamed, skipped, errors,
                   run, fs0, prev>>
    /\ UNCHANGED san

\* Aggregate whose elif counts every result that is not "renamed" as skipped
Aggregate_errorAsSkipped(t) ==
    /\ task[t].pc = "done"
    /\ task' = [task EXCEPT ![t].pc = "counted"]
    /\ renamed' = IF task[t].status = "renamed" THEN renamed + 1 ELSE renamed
    /\ skipped' = IF task[t].status = "renamed" THEN skipped ELSE skipped + 1
    /\ errors' = errors
    /\ UNCHANGED <<fs, tags, dry_run, workers, mp3s, run, fs0, prev, raised, nfail>>
    /\ UNCHANGED san

\* Aggregate that counts an error only while nothing has been counted as
\* renamed yet
Aggregate_errorsOnlyFirst(t) ==
    /\ task[t].pc = "done"
    /\ task' = [task EXCEPT ![t].pc = "counted"]
    /\ renamed' = IF task[t].status = "renamed" THEN renamed + 1 ELSE renamed
    /\ skipped' = IF task[t].status = "renamed" THEN skipped
                  ELSE IF task[t].status = "skipped" THEN skipped + 1 ELSE skipped
    /\ errors' = IF task[t].status \in {"renamed", "skipped"} \/ renamed > 0
                 THEN errors ELSE errors + 1
    /\ UNCHANGED <<fs, tags, dry_run, workers, mp3s, run, fs0, prev, raised, nfail>>
    /\ UNCHANGED san

\* One iteration of the as_completed loop of main.
Aggregate(t) ==
    /\ task[t].pc = "done"
    /\ task' = [task EXCEPT ![t].pc = "counted"]
    /\ renamed' = IF task[t].status = "renamed" THEN renamed + 1 ELSE renamed
    /\ skipped' = IF task[t].status = "renamed" THEN skipped
                  ELSE IF task[t].status = "skipped" THEN skipped + 1 ELSE skipped
    /\ errors' = IF task[t].status \in {"renamed", "skipped"} THEN errors ELSE errors + 1
    /\ UNCHANGED <<fs, tags, dry_run, workers, mp3s, run, fs0, prev, raised, nfail>>
    /\ UNCHANGED san

\* main has consumed every future
Finished == \A t \in mp3s : task[t].pc = "counted"

\* find_mp3s: every path under the root
find_mp3s(fsys) == DOMAIN fsys

\* main is invoked a second time on the same root, after the first
\* invocation returned.  A dry run leaves the tree as it was, so its second
\* run would repeat the first and is not modelled.
SecondRun ==
    /\ run = 1
    /\ ~dry_run
    /\ Finished
    /\ run' = 2
    /\ mp3s' = find_mp3s(fs)
    /\ task' = [p \in find_mp3s(fs) |-> Queued]
    /\ renamed' = 0 /\ skipped' = 0 /\ errors' = 0
    /\ fs0' = fs
    /\ prev' = task
    /\ raised' = {}
    /\ UNCHANGED <<fs, tags, dry_run, workers, nfail>>
    /\ UNCHANGED san

Next ==
    \/ \E t \in mp3s : Start(t)
    \/ \E t \in mp3s : Check(t)
    \/ \E t \in mp3s : Rename(t)
    \/ \E t \in mp3s : Aggregate(t)
    \/ SecondRun

Spec == Init /\ [][Next]_vars

\* a step of some thread of the current run: of the as_completed loop of
\* main or of a worker thread of the pool
Step == \E t \in mp3s : Aggregate(t) \/ Rename(t) \/ Check(t) \/ Start(t)

\* the scheduler does not stop while a thread of the run can take a step
FairSpec == Spec /\ WF_vars(Step)

\* ----------------------------- properties ----------------------------- \*

\* the files (identities) stored in a file system
FilesOf(fsys) == {fsys[p] : p \in DOMAIN fsys}

\* futures whose result exists
Ended(t) == task[t].pc \in {"done", "counted"}

TagAB == Tag("ok", Some(<<"A">>), Some(<<"B">>))

\* "{stem}.mp3" for n = 1 and "{stem} (n).mp3" for 2 <= n <= 9, written out
SuffixedName(stem, n) ==
    IF n = 1 THEN stem \o <<".", "m", "p", "3">>
    ELSE stem \o <<" ", "(", Digits[n + 1], ")", ".", "m", "p", "3">>

\* C1: two (k) files of one directory whose tags give the same base name
\* "A - B", neither named canonically, renamed for real by the pool: when the
\* run has ended the directory holds exactly "A - B.mp3", "A - B (2).mp3", ...,
\* "A - B (k).mp3", and they are k different files.
C1_CollisionScenario ==
    (/\ run = 1 /\ ~dry_run /\ nfail = 0 /\ Finished
     /\ Cardinality(DOMAIN fs0) >= 2
     /\ \A p \in DOMAIN fs0 : /\ p[1] = Dir1
                              /\ p[2] \in {NameT, NameU}
                              /\ tags[p] = TagAB)
    => /\ DOMAIN fs = {<<Dir1, SuffixedName(StemAB, i)>> : i \in 1..Cardinality(DOMAIN fs0)}
       /\ Cardinality(FilesOf(fs)) = Cardinality(DOMAIN fs0)

\* C2: no file is ever lost: the directory tree holds the same files, and as
\* many, as when the run scanned it.
C2_NoFileLost ==
    /\ FilesOf(fs) = FilesOf(fs0)
    /\ Cardinality(DOMAIN fs) = Cardinality(DOMAIN fs0)

\* C3: every src.rename(dst) call is made on a destination that does not
\* exist at the moment of the call.
C3_RenameTargetsFreePath ==
    [][\A t \in mp3s :
         (task[t].pc = "rename" /\ ~dry_run /\ task'[t].pc = "done")
         => ~Exists(fs, task[t].dst)]_vars

\* the path of t is the canonical name its own tags give
Canonical(t) ==
    /\ Exists(fs0, t)
    /\ tags[fs0[t]].kind = "ok"
    /\ Truthy(tags[fs0[t]].artist) \/ Truthy(tags[fs0[t]].title)
    /\ t = <<Parent(t),
             SuffixedName(build_base_name(tags[fs0[t]].artist, tags[fs0[t]].title), 1)>>

\* C4: a second run, after a first real run, reports every file the first
\* run renamed as skipped with "Already has desired name" and leaves the set
\* of file names as it found it.
C4_SecondRunIdempotent ==
    (run = 2 /\ Finished /\ workers = 1 /\ nfail = 0)
    => /\ DOMAIN fs = DOMAIN fs0
       /\ \A p \in DOMAIN prev :
            prev[p].status = "renamed"
            => /\ prev[p].dst \in mp3s
               /\ task[prev[p].dst].status = "skipped"
               /\ task[prev[p].dst].message = "Already has desired name"

\* C5: a file that already bears its canonical name gets no destination and
\* ends skipped with "Already has desired name".
C5_CanonicalIsSkipped ==
    \A t \in mp3s :
        Canonical(t)
        => /\ task[t].pc # "rename"
           /\ Ended(t) => /\ task[t].status = "skipped"
                          /\ task[t].message = "Already has desired name"

\* the stems the modelled tags and file names give
Stems == {StemAB, build_base_name(None, Some(<<"B">>)), <<"t">>, <<"u">>}

\* p is directory / "{stem}.mp3" when that is free in fsys, otherwise
\* directory / "{stem} (n).mp3" for the lowest n >= 2 whose name is free
LowestFree(fsys, directory, stem, p) ==
    /\ ~Exists(fsys, p)
    /\ \E n \in 1..(Cardinality(DOMAIN fsys) + 1) :
         /\ p = <<directory, SuffixedName(stem, n)>>
         /\ \A m \in 1..(n - 1) : Exists(fsys, <<directory, SuffixedName(stem, m)>>)

\* C6: on every directory content unique_path returns "{stem}{ext}" if it
\* is free and otherwise "{stem} (n){ext}" for the lowest free n >= 2, never
\* an existing path; a worker nobody interferes with gets that path.
C6_ResolverLowestFree ==
    /\ \A d \in {Dir1, Dir2} : \A stem \in Stems :
          LowestFree(fs, d, stem, unique_path(fs, d, stem, Mp3Ext))
    /\ \A t \in mp3s :
          (workers = 1 /\ task[t].pc = "rename")
          => LowestFree(fs, Parent(t), task[t].stem, task[t].dst)

\* C6 happens: with "A - B.mp3" occupied a worker got "A - B (2).mp3"
C6_Witness ==
    \E t \in mp3s :
        /\ workers = 1 /\ task[t].pc = "rename" /\ task[t].stem = StemAB
        /\ Exists(fs, <<Parent(t), NameAB>>)
        /\ task[t].dst = <<Parent(t), NameAB2>>
        /\ unique_path(fs, Parent(t), StemAB, Mp3Ext) = <<Parent(t), NameAB2>>

\* the futures with a given status
WithStatus(st) == {t \in mp3s : Ended(t) /\ task[t].status = st}

\* C7: when exactly one file's rename call raised, the run that has ended
\* counted errors = 1 and renamed + skipped = N - 1, each of the N files in
\* exactly one counter.
C7_FailureIsolation ==
    (Finished /\ Cardinality(raised) = 1)
    => /\ errors = 1
       /\ renamed + skipped = Cardinality(mp3s) - 1
       /\ renamed = Cardinality(WithStatus("renamed"))
       /\ skipped = Cardinality(WithStatus("skipped"))
       /\ errors = Cardinality(WithStatus("error"))
       /\ WithStatus("renamed") \cup WithStatus("skipped") \cup WithStatus("error") = mp3s

\* C7 happens: two files, the rename of one raised, the other was processed
C7_Witness ==
    /\ Finished /\ Cardinality(raised) = 1 /\ Cardinality(mp3s) = 2
    /\ errors = 1 /\ renamed = 1

\* C8: a rename call that raises gives the outcome error with the detail and
\* changes nothing in the file system: the source file is still at its path.
C8_FailedRenameLeavesSource ==
    [][\A t \in mp3s :
         (task[t].pc = "rename" /\ t \notin raised /\ t \in raised')
         => /\ task'[t].pc = "done"
            /\ task'[t].status = "error"
            /\ task'[t].message # ""
            /\ fs' = fs
            /\ Exists(fs', t)
            /\ fs'[t] = fs0[t]]_vars

\* C8 happens: a rename raised, onto a destination another worker had filled
C8_Witness ==
    \E t \in raised :
        /\ task[t].status = "error" /\ task[t].message = "exists"
        /\ Exists(fs, t) /\ fs[t] = fs0[t]
        /\ Exists(fs, task[t].dst) /\ fs[task[t].dst] # fs0[t]

\* the tags of t give a base name
HasBaseName(t) ==
    /\ tags[fs0[t]].kind = "ok"
    /\ Truthy(tags[fs0[t]].artist) \/ Truthy(tags[fs0[t]].title)

\* the destination derive_target computes for t on the scanned file system
ScannedTarget(t) ==
    unique_path(fs0, Parent(t),
                build_base_name(tags[fs0[t]].artist, tags[fs0[t]].title), Mp3Ext)

\* C9: with dry_run the file system stays as it was scanned, and every file
\* for which a destination is derived ends renamed, carrying that destination.
C9_DryRunNoMutation ==
    dry_run
    => /\ fs = fs0
       /\ \A t \in mp3s :
            (Ended(t) /\ HasBaseName(t) /\ ScannedTarget(t) # t)
            => /\ task[t].status = "renamed"
               /\ task[t].message = "dry-run"
               /\ task[t].dst = ScannedTarget(t)

\* C9 happens: a dry run has ended with a file reported renamed that is
\* still at its source and whose destination does not exist
C9_Witness ==
    /\ dry_run /\ Finished
    /\ \E t \in mp3s : /\ task[t].status = "renamed"
                       /\ Exists(fs, t)
                       /\ ~Exists(fs, task[t].dst)

\* the futures main has consumed
Counted == {t \in mp3s : task[t].pc = "counted"}

\* C10: the counters always add up to the number of results consumed, no
\* counter decreases during a run, a result once produced stays as it is, a
\* second run begins only after the first consumed every result, and the
\* last run reaches the end of the aggregation loop, and stays there, with
\* renamed + skipped + errors = N.
C10_EveryFileCountedOnce ==
    /\ [](renamed + skipped + errors = Cardinality(Counted))
    /\ [][run' = run
          => /\ renamed' >= renamed /\ skipped' >= skipped /\ errors' >= errors
             /\ \A t \in mp3s : Ended(t) => /\ Ended(t)'
                                            /\ task'[t].status = task[t].status]_vars
    /\ [](run = 2 => \A p \in DOMAIN prev : prev[p].pc = "counted")
    /\ <>[](Finished /\ renamed + skipped + errors = Cardinality(mp3s))

\* C10 happens: a run has ended whose files ended in different ways
C10_Witness ==
    /\ Finished /\ Cardinality(mp3s) = 2
    /\ renamed + skipped + errors = 2 /\ errors = 1 /\ skipped = 1

\* reading the tags of t fails, or they carry neither artist nor title
MetadataProblem(t) ==
    \/ tags[fs0[t]].kind = "raise"
    \/ /\ tags[fs0[t]].kind = "ok"
       /\ ~Truthy(tags[fs0[t]].artist) /\ ~Truthy(tags[fs0[t]].title)

\* C11: a file whose tags cannot be read, or carry neither artist nor title,
\* only ever ends skipped, with "Exception reading tags: ..." or "Missing
\* artist and title tags", never with an error; no rename is attempted for
\* it, the step that decides it changes nothing in the file system, the file
\* stays at its source path, and the run still consumes every result.
C11_MetadataProblemSkips ==
    /\ [](\A t \in mp3s :
            MetadataProblem(t)
            => /\ task[t].pc \in {"queued", "done", "counted"}
               /\ t \notin raised
               /\ Exists(fs, t) /\ fs[t] = fs0[t]
               /\ Ended(t)
                  => /\ task[t].status = "skipped"
                     /\ task[t].dst = NoPath
                     /\ task[t].message =
                           IF tags[fs0[t]].kind = "raise"
                           THEN "Exception reading tags: parse error"
                           ELSE "Missing artist and title tags")
    /\ [][\A t \in mp3s :
            (run' = run /\ MetadataProblem(t) /\ task'[t] # task[t]) => fs' = fs]_vars
    /\ <>[]Finished

\* C11 happens: a real run has ended in which the tags of one file could not
\* be read and the file was skipped, and the other file was renamed
C11_Witness ==
    /\ Finished /\ ~dry_run
    /\ \E t \in mp3s : \E u \in mp3s :
          /\ tags[fs0[t]].kind = "raise"
          /\ task[t].status = "skipped" /\ Exists(fs, t)
          /\ task[u].status = "renamed" /\ ~Exists(fs, u)

\* --------------------------- the sanitizer ---------------------------- \*

\* longest text handed to safe_filename
MaxText == 3
\* largest max_len handed to safe_filename
MaxLenArg == 3

\* the characters texts are made of: a letter, a space, a period, an illegal
\* character and the characters NFKC, strip and the regular expressions
\* treat specially
Alphabet == {"a", " ", ".", "/", "TAB", "SOH", "LS", "FWSOL", "NBSP"}

Texts == UNION {[1..k -> Alphabet] : k \in 0..MaxText}

\* safe_filename is about to be called with a text (or None) and a max_len;
\* no file is being renamed
SanInit ==
    /\ san \in [text : {None} \cup {Some(x) : x \in Texts},
                max_len : 1..MaxLenArg, pc : {"call"}, out : {<<>>}]
    /\ fs = <<>> /\ tags = <<>> /\ fs0 = <<>> /\ prev = <<>> /\ task = <<>>
    /\ mp3s = {} /\ raised = {}
    /\ dry_run = FALSE /\ workers = 1 /\ run = 1
    /\ renamed = 0 /\ skipped = 0 /\ errors = 0 /\ nfail = 0

\* the call safe_filename(text, max_len), `text or ""` included
Sanitize ==
    /\ san.pc = "call"
    /\ san' = [san EXCEPT !.pc = "returned",
                          !.out = safe_filename(OrElse(san.text, <<>>), san.max_len)]
    /\ UNCHANGED <<fs, tags, dry_run, workers, mp3s, task, renamed, skipped, errors,
                   run, fs0, prev, raised, nfail>>

SanSpec == SanInit /\ [][Sanitize]_vars

\* C12: what safe_filename returns is not empty, has no illegal character
\* and no control character, does not begin with a space, does not end with
\* a space or a period, and is at most max_len long.
C12_SanitizerPostconditions ==
    san.pc = "returned"
    => /\ san.out # <<>>
       /\ \A i \in 1..Len(san.out) : san.out[i] \notin IllegalChars \cup ControlChars
       /\ san.out[1] # " "
       /\ san.out[Len(san.out)] \notin {" ", "."}
       /\ Len(san.out) <= san.max_len

\* ------------------------- more about the runs ------------------------ \*

\* C13: the final counts are a function of the scanned directory, the tags
\* and the set of files whose rename call raised, whatever the interleaving
\* of the workers and the order in which main consumed the results: errors
\* is the number of raising rename calls, skipped the number of files whose
\* tags give no base name, renamed the number of the other files.
C13_CountsIndependentOfOrder ==
    Finished
    => /\ errors = Cardinality(raised)
       /\ skipped = Cardinality({t \in mp3s : ~HasBaseName(t)})
       /\ renamed = Cardinality({t \in mp3s : HasBaseName(t)} \ raised)

\* C13 happens: two workers raced, both renames were counted, and the
\* interleaving shows in the directory only
C13_Witness ==
    /\ Finished /\ workers = 2 /\ Cardinality(mp3s) = 2
    /\ renamed = 2 /\ Cardinality(DOMAIN fs) = 1

\* t is the only file of the tree, is tagged artist "A" and title "B" and is
\* not named "A - B.mp3"
SingleFileScenario(t) ==
    /\ mp3s = {t} /\ DOMAIN fs0 = {t}
    /\ tags[fs0[t]] = TagAB
    /\ t[2] # NameAB

\* C14: the only file of a directory, tagged with artist and title and not
\* named canonically, gets the destination "{artist} - {title}.mp3" without
\* a suffix; when a real run whose rename call did not raise has ended,
\* renamed = 1, skipped = 0, errors = 0, the file is at the destination and
\* nothing is at the source path.
C14_SingleFileRenamed ==
    \A t \in mp3s :
        SingleFileScenario(t)
        => /\ (task[t].pc = "rename" \/ Ended(t))
              => /\ task[t].dst = <<Parent(t), NameAB>>
                 /\ task[t].status # "skipped"
           /\ (Finished /\ ~dry_run /\ raised = {})
              => /\ renamed = 1 /\ skipped = 0 /\ errors = 0
                 /\ DOMAIN fs = {<<Parent(t), NameAB>>}
                 /\ fs[<<Parent(t), NameAB>>] = fs0[t]

\* C14 happens: t.mp3, alone in d1, has been renamed by a real run
C14_Witness ==
    /\ SingleFileScenario(<<Dir1, NameT>>)
    /\ Finished /\ ~dry_run /\ run = 1
    /\ renamed = 1 /\ skipped = 0 /\ errors = 0
    /\ DOMAIN fs = {<<Dir1, NameAB>>}

\* C15: a file that has not been renamed, and so every file whose outcome is
\* skipped or error, is at its original path, the same file, at every moment
\* of the run: no other worker overwrites or removes it.
C15_UnrenamedFileStays ==
    \A t \in mp3s :
        task[t].status # "renamed" => (Exists(fs, t) /\ fs[t] = fs0[t])

\* C15 happens: a skipped file occupies "A - B.mp3", and a worker that
\* wanted that name has renamed its file to "A - B (2).mp3" instead
C15_Witness ==
    /\ Finished /\ ~dry_run
    /\ \E t \in mp3s : \E u \in mp3s :
          /\ t[2] = NameAB /\ task[t].status = "skipped" /\ fs[t] = fs0[t]
          /\ task[u].status = "renamed" /\ task[u].dst = <<Parent(t), NameAB2>>
          /\ Exists(fs, task[u].dst)

\* the part of a file system that lies in directory d
InDir(fsys, d) == [p \in {q \in DOMAIN fsys : q[1] = d} |-> fsys[p]]

\* a worker has really renamed a file of directory d in the current run
RenamedIn(d) ==
    ~dry_run /\ \E t \in mp3s : t[1] = d /\ task[t].status = "renamed"

\* C16: every destination derive_target computes is in the directory of its
\* source; every file is in the directory it was scanned in; and a directory
\* in which no worker has renamed a file is as it was scanned.
C16_RenamesStayInDirectory ==
    /\ \A t \in mp3s : task[t].dst # NoPath => task[t].dst[1] = t[1]
    /\ \A d \in {Dir1, Dir2} :
          /\ FilesOf(InDir(fs, d)) \subseteq FilesOf(InDir(fs0, d))
          /\ ~RenamedIn(d) => InDir(fs, d) = InDir(fs0, d)

\* C16 happens: the file of d2 has been renamed inside d2, and d1, where
\* nothing was renamed, still holds its file
C16_Witness ==
    /\ Finished /\ ~dry_run
    /\ \E t \in mp3s : \E u \in mp3s :
          /\ t[1] = Dir2 /\ task[t].status = "renamed"
          /\ task[t].dst = <<Dir2, NameAB>> /\ Exists(fs, <<Dir2, NameAB>>)
          /\ ~Exists(fs, <<Dir1, NameAB>>)
          /\ u[1] = Dir1 /\ task[u].status = "skipped" /\ Exists(fs, u)

\* the totals of a run over the scanned files in which no rename call
\* raises; dry_run does not occur in them
TotalsWithoutFailure ==
    [renamed |-> Cardinality({t \in mp3s : HasBaseName(t)}),
     skipped |-> Cardinality(mp3s) - Cardinality({t \in mp3s : HasBaseName(t)}),
     errors |-> 0]

\* C17: a dry run, and a real run in which no rename call raised, end with
\* the same totals for the same scanned directory and tags, under every
\* interleaving: both end with the totals that depend on the directory and
\* the tags alone.
C17_DryRunSameTotals ==
    (Finished /\ (dry_run \/ raised = {}))
    => [renamed |-> renamed, skipped |-> skipped, errors |-> errors]
       = TotalsWithoutFailure

\* C17 happens: a dry run has ended that reported the same destination for
\* two files, which a real run renames to two names (or races on)
C17_Witness ==
    /\ Finished /\ dry_run /\ renamed = 2 /\ raised = {}
    /\ \E t \in mp3s : \E u \in mp3s : t # u /\ task[t].dst = task[u].dst

====
